---------------------------- MODULE Spec2Model ----------------------------
(***************************************************************************)
(* Model of bxserum: the WebSocket JSON-RPC provider (provider/ws.py), the *)
(* HTTP provider (provider/http.py), the submit operations of Provider     *)
(* (provider/base.py) and the transaction signer (transaction/signing.py). *)
(*                                                                         *)
(* Spec        the two transports at the level of single calls: coroutines *)
(*             (tasks) of one event loop run connect / close /             *)
(*             call_single / call_stream and interleave at every await of  *)
(*             the source; the peer answers requests in any order and may  *)
(*             drop a connection.                                          *)
(* SpecSubmit  the submit operations of Provider over either transport:    *)
(*             require_private_key, the build call, the signing and the    *)
(*             submit call(s), with the responses of the service drawn     *)
(*             from bounded sets.                                          *)
(* SpecSign    one call of sign_tx_with_private_key, statement by          *)
(*             statement, on a wire form and a key pair drawn from bounded *)
(*             sets.                                                       *)
(* SpecStream  a connected WsProvider on which a stream is consumed and    *)
(*             which is closed or dropped, the consumer going on to ask    *)
(*             for the next item (weak fairness of the iteration).         *)
(* SpecShared  a connected WsProvider on which a call_single and a         *)
(*             call_stream read from the one connection.                   *)
(* SpecSequential  a connected WsProvider on which call_single is called   *)
(*             again only when the call before has ended.                  *)
(* SpecConnect a WsProvider from its construction on, with calls made      *)
(*             before and after connect().                                 *)
(*                                                                         *)
(* The aiohttp objects are modelled by their documented behaviour: a       *)
(* connection is a queue of inbound messages; send_json on a connection    *)
(* that is not open raises; receive_json returns the next buffered message *)
(* and raises when the connection is closed and nothing is buffered;       *)
(* `async for msg in ws` ends when the connection is closed; closing the   *)
(* session closes its connections.  Of solana-py the model keeps that a    *)
(* Transaction is its signature slots, the required signature count of its *)
(* header and its message, and that a zero signature on the wire is None   *)
(* in the object.                                                          *)
(***************************************************************************)
EXTENDS Integers, Sequences, FiniteSets, TLC

(***************************************************************************)
(* Bounds of the model.                                                    *)
(***************************************************************************)
MaxTasks == 2        \* concurrently running coroutines
MaxOps == 3          \* operations started over a run
MaxPush == 2         \* messages the server sends over a run
MaxTxs == 3          \* transactions in one cancel-all build response
MaxMsg == 2          \* distinct transaction messages
MaxConf == 2         \* distinct confirmation signatures of the service
MaxSigs == 3         \* signature slots of a transaction handed to the signer
MaxKeys == 2         \* distinct key pairs handed to the signer

Tasks == 1..MaxTasks
Conns == 1..MaxTasks \* a connect() passes its None test before the first
                     \* assignment of _ws, so at most one per task is made

None == 0            \* Python None for _ws, a free lock, no identifier
Keypair == 1         \* the key pair a provider is constructed with

(***************************************************************************)
(* State.                                                                  *)
(***************************************************************************)
VARIABLES
  kind,            \* "ws" (WsProvider) or "http" (HttpProvider)
  ws,              \* WsProvider._ws: None or the connection it refers to
  session_closed,  \* aiohttp session of the provider has been closed
  request_id,      \* WsProvider._request_id
  request_lock,    \* WsProvider._request_lock: None or the task holding it
  nconn,           \* connections established by ws_connect so far
  open,            \* the connections that are open
  inbox,           \* per connection: inbound messages not yet read
  sent,            \* frames written: [conn, id, op, task]
  answered,        \* identifiers of call_single requests already answered
  npush,           \* number of messages the server has sent
  pc,              \* per task: position in its coroutine
  op,              \* per task: operation it runs / ran last
  lws,             \* per task: the local `ws` of the running call
  previous,        \* per task: local `previous` of _next_request_id
  rid,             \* per task: identifier of the request it created
  got,             \* per task: messages delivered to the caller by this op
  outcome,         \* per task: how its last operation ended
  ctx,             \* per task: facts at the start of the operation (history)
  issued,          \* identifiers returned by _next_request_id, in order
  nops,            \* operations started
  close_done,      \* a close() has completed
  connect_done,    \* a connect() has completed
  dropped,         \* the connections that were dropped by the peer
  httpreq,         \* HTTP exchanges performed
  private_key,     \* Provider._private_key: None or the key pair
  arg,             \* per task: skip_pre_flight as passed by the caller
  log,             \* per task: transport calls issued by its operation
  resp,            \* per task: transactions of the build response
  idx,             \* per task: position of the loop over the transactions
  signed_tx,       \* per task: local `signed_tx`
  signatures,      \* per task: confirmation signatures obtained
  unsigned_tx_base64, \* signer: the wire form it was called with
  keypair,         \* signer: the key pair it was called with
  the_tx,          \* signer: the Transaction object `tx` being signed
  new_signature,   \* signer: local `new_signature`
  zero_index,      \* signer: local `zero_sig_index` (-1 for none)
  index,           \* signer: position of the scan over the slots (0-based)
  sign_pc,         \* signer: position in sign_tx_with_private_key
  sign_result      \* signer: what the call returned or raised

vars == <<kind, ws, session_closed, request_id, request_lock, nconn, open,
          inbox, sent, answered, npush, pc, op, lws, previous, rid, got, outcome,
          ctx, issued, nops, close_done, connect_done, dropped, httpreq,
          private_key, arg, log, resp, idx, signed_tx, signatures,
          unsigned_tx_base64, keypair, the_tx, new_signature, zero_index,
          index, sign_pc, sign_result>>

provVars == <<kind, ws, session_closed, request_id, request_lock, nconn>>
netVars == <<open, inbox, sent, answered, npush, httpreq>>
histVars == <<issued, close_done, connect_done, dropped>>
subVars == <<private_key, arg, log, resp, idx, signed_tx, signatures>>
signVars == <<unsigned_tx_base64, keypair, the_tx, new_signature, zero_index,
              index, sign_pc, sign_result>>

Kinds == {"ws", "http"}
OpKinds == {"connect", "close", "call_single", "call_stream"}
Outcomes == {"none", "ok", "NotConnected", "TransportError", "RpcError",
             "EndOfStream", "NotImplemented", "MissingPrivateKey",
             "TypeError", "DecodeError", "Malformed", "NoSignatures",
             "MoreThanOneZero", "NoZero"}

\* An inbound JSON-RPC message: the identifier it answers and whether it
\* carries an error field.
Msg(i, e) == [id |-> i, error |-> e]

NoCtx == [after_close |-> FALSE, after_drop |-> FALSE, at_drop |-> FALSE,
          wrote |-> FALSE]

\* No Transaction object yet, and no outcome of a signing yet.
NoTx == [signatures |-> <<>>, required |-> 0, message |-> 0]
NoResult == [err |-> "pending", tx |-> <<>>]

\* No call of the signer is under way.
NotSigning ==
  /\ unsigned_tx_base64 = <<>>
  /\ keypair = None
  /\ the_tx = NoTx
  /\ new_signature = None
  /\ zero_index = -1
  /\ index = 0
  /\ sign_pc = "idle"
  /\ sign_result = NoResult

Init ==
  /\ kind \in Kinds
  /\ ws = None
  /\ session_closed = FALSE
  /\ request_id = 1
  /\ request_lock = None
  /\ nconn = 0
  /\ open = {}
  /\ inbox = [c \in Conns |-> <<>>]
  /\ sent = {}
  /\ answered = {}
  /\ npush = 0
  /\ pc = [t \in Tasks |-> "idle"]
  /\ op = [t \in Tasks |-> "none"]
  /\ lws = [t \in Tasks |-> None]
  /\ previous = [t \in Tasks |-> None]
  /\ rid = [t \in Tasks |-> None]
  /\ got = [t \in Tasks |-> <<>>]
  /\ outcome = [t \in Tasks |-> "none"]
  /\ ctx = [t \in Tasks |-> NoCtx]
  /\ issued = <<>>
  /\ nops = 0
  /\ close_done = FALSE
  /\ connect_done = FALSE
  /\ dropped = {}
  /\ httpreq = 0
  /\ private_key = None
  /\ arg = [t \in Tasks |-> "default"]
  /\ log = [t \in Tasks |-> <<>>]
  /\ resp = [t \in Tasks |-> <<>>]
  /\ idx = [t \in Tasks |-> 0]
  /\ signed_tx = [t \in Tasks |-> <<>>]
  /\ signatures = [t \in Tasks |-> <<>>]
  /\ NotSigning

taskVars == <<pc, op, lws, previous, rid, got, outcome, ctx>>

(***************************************************************************)
(* An operation of task t ends: it returns (out = "ok", "EndOfStream") or  *)
(* raises (any other outcome) and the task is free for the next one.       *)
(***************************************************************************)
Finish(t, out) ==
  /\ pc' = [pc EXCEPT ![t] = "idle"]
  /\ outcome' = [outcome EXCEPT ![t] = out]

\* The caller starts operation o on the provider.
Start(t, o) ==
  /\ pc[t] = "idle"
  /\ nops < MaxOps
  /\ nops' = nops + 1
  /\ op' = [op EXCEPT ![t] = o]
  /\ pc' = [pc EXCEPT ![t] = o]
  /\ outcome' = [outcome EXCEPT ![t] = "none"]
  /\ got' = [got EXCEPT ![t] = <<>>]
  /\ rid' = [rid EXCEPT ![t] = None]
  /\ lws' = [lws EXCEPT ![t] = None]
  /\ previous' = [previous EXCEPT ![t] = None]
  /\ ctx' = [ctx EXCEPT ![t] = [after_close |-> close_done,
                                after_drop |-> FALSE,
                                at_drop |-> FALSE,
                                wrote |-> FALSE]]
  /\ UNCHANGED <<provVars, netVars, histVars>>
  /\ UNCHANGED <<subVars, signVars>>

(***************************************************************************)
(* WsProvider.connect                                                      *)
(***************************************************************************)
\* `if self._ws is None:` -- the test that guards the connection attempt.
connect_needed == ws = None

\* connect(), up to the await of ws_connect.
Connect(t) ==
  /\ pc[t] = "connect"
  /\ kind = "ws"
  /\ IF connect_needed
       THEN /\ pc' = [pc EXCEPT ![t] = "ws_connect"]
            /\ UNCHANGED <<outcome, connect_done>>
       ELSE /\ Finish(t, "ok")
            /\ connect_done' = TRUE
  /\ UNCHANGED <<provVars, netVars, op, lws, previous, rid, got, ctx, issued,
                 nops, close_done, dropped>>
  /\ UNCHANGED <<subVars, signVars>>

\* ws_connect completes and its result is assigned to self._ws; on a closed
\* session, or when the peer is unreachable, it raises instead.
Ws_connect(t) ==
  /\ pc[t] = "ws_connect"
  /\ \/ /\ ~session_closed
        /\ nconn' = nconn + 1
        /\ open' = open \cup {nconn + 1}
        /\ ws' = nconn + 1
        /\ Finish(t, "ok")
        /\ connect_done' = TRUE
     \/ /\ Finish(t, "TransportError")
        /\ UNCHANGED <<nconn, open, ws, connect_done>>
  /\ UNCHANGED <<kind, session_closed, request_id, request_lock, inbox, sent,
                 answered, npush, httpreq, op, lws, previous, rid, got, ctx,
                 issued, nops, close_done, dropped>>
  /\ UNCHANGED <<subVars, signVars>>

\* HttpProvider.connect: `pass`.
Http_connect(t) ==
  /\ pc[t] = "connect"
  /\ kind = "http"
  /\ Finish(t, "ok")
  /\ connect_done' = TRUE
  /\ UNCHANGED <<provVars, netVars, op, lws, previous, rid, got, ctx, issued,
                 nops, close_done, dropped>>
  /\ UNCHANGED <<subVars, signVars>>

(***************************************************************************)
(* WsProvider.close / HttpProvider.close                                   *)
(***************************************************************************)
\* `ws = self._ws; if ws is not None: await ws.close()`
Close_ws(t) ==
  /\ pc[t] = "close"
  /\ kind = "ws"
  /\ lws' = [lws EXCEPT ![t] = ws]
  /\ open' = IF ws # None THEN open \ {ws} ELSE open
  /\ pc' = [pc EXCEPT ![t] = "close_session"]
  /\ UNCHANGED <<provVars, inbox, sent, answered, npush, httpreq, op,
                 previous, rid, got, outcome, ctx, histVars, nops>>
  /\ UNCHANGED <<subVars, signVars>>

\* `await session.close()`: the session's connector closes every connection
\* it handed out.
Close_session(t) ==
  /\ \/ pc[t] = "close_session"
     \/ pc[t] = "close" /\ kind = "http"
  /\ session_closed' = TRUE
  /\ open' = {}
  /\ close_done' = TRUE
  /\ Finish(t, "ok")
  /\ UNCHANGED <<kind, ws, request_id, request_lock, nconn, inbox, sent, answered,
                 npush, httpreq, op, lws, previous, rid, got, ctx, issued,
                 nops, connect_done, dropped>>
  /\ UNCHANGED <<subVars, signVars>>

(***************************************************************************)
(* WsProvider._unary_unary / _unary_stream: the part they share            *)
(***************************************************************************)
IsCall(o) == o \in {"call_single", "call_stream"}

\* `self._request_id += 1`
next_id(i) == i + 1

\* A test that lets a call go on without a connection.
not_connected_never(w) == FALSE

\* `if ws is None: raise NotConnectedException()`
not_connected(w) == w = None

\* A call that has its request created before it raises.
NotConnectedException_late(t) ==
  /\ Finish(t, "NotConnected")
  /\ request_id' = next_id(request_id)
  /\ issued' = Append(issued, request_id)

\* `raise NotConnectedException()` comes before `_create_request`: the call
\* ends and the counter of the provider is as it was.
NotConnectedException(t) ==
  /\ Finish(t, "NotConnected")
  /\ UNCHANGED <<request_id, issued>>

\* `ws = self._ws` and the test on it.
Call_test(t) ==
  /\ IsCall(pc[t])
  /\ kind = "ws"
  /\ lws' = [lws EXCEPT ![t] = ws]
  /\ ctx' = [ctx EXCEPT ![t].after_drop = ws \in dropped]
  /\ IF not_connected(ws)
       THEN NotConnectedException(t)
       ELSE /\ pc' = [pc EXCEPT ![t] = "acquire"]
            /\ UNCHANGED <<outcome, request_id, issued>>
  /\ UNCHANGED <<kind, ws, session_closed, request_lock, nconn, netVars,
                 close_done, connect_done, dropped, op, previous, rid, got,
                 nops>>
  /\ UNCHANGED <<subVars, signVars>>

\* A lock that never keeps a second task out.
lock_free_always(l) == TRUE

\* `async with self._request_lock:` is entered only while the lock is free.
lock_free(l) == l = None

Lock_acquire(t) ==
  /\ pc[t] = "acquire"
  /\ lock_free(request_lock)
  /\ request_lock' = t
  /\ pc' = [pc EXCEPT ![t] = "read"]
  /\ UNCHANGED <<kind, ws, session_closed, request_id, nconn, netVars,
                 histVars, op, lws, previous, rid, got, outcome, ctx, nops>>
  /\ UNCHANGED <<subVars, signVars>>

\* `previous = self._request_id`
Lock_read(t) ==
  /\ pc[t] = "read"
  /\ previous' = [previous EXCEPT ![t] = request_id]
  /\ pc' = [pc EXCEPT ![t] = "incr"]
  /\ UNCHANGED <<provVars, netVars, histVars, op, lws, rid, got, outcome,
                 ctx, nops>>
  /\ UNCHANGED <<subVars, signVars>>

\* The increment, `return str(previous)` and the release of the lock.
Lock_incr(t) ==
  /\ pc[t] = "incr"
  /\ request_id' = next_id(request_id)
  /\ request_lock' = None
  /\ rid' = [rid EXCEPT ![t] = previous[t]]
  /\ issued' = Append(issued, previous[t])
  /\ pc' = [pc EXCEPT ![t] = "send"]
  /\ UNCHANGED <<kind, ws, session_closed, nconn, netVars, close_done,
                 connect_done, dropped, op, lws, previous, got, outcome, ctx,
                 nops>>
  /\ UNCHANGED <<subVars, signVars>>

\* `await ws.send_json(request.to_json())`: the frame is written to the
\* local connection; a connection that is no longer open raises.
Send(t) ==
  /\ pc[t] = "send"
  /\ IF lws[t] \in open
       THEN /\ sent' = sent \cup {[conn |-> lws[t], id |-> rid[t],
                                   op |-> op[t]]}
            /\ ctx' = [ctx EXCEPT ![t].wrote = TRUE]
            /\ pc' = [pc EXCEPT ![t] =
                        IF op[t] = "call_single" THEN "recv" ELSE "iter"]
            /\ UNCHANGED outcome
       ELSE /\ Finish(t, "TransportError")
            /\ UNCHANGED <<sent, ctx>>
  /\ UNCHANGED <<provVars, open, inbox, answered, npush, httpreq, histVars,
                 op, lws, previous, rid, got, nops>>
  /\ UNCHANGED <<subVars, signVars>>

(***************************************************************************)
(* Decoding of an inbound message                                          *)
(***************************************************************************)
\* ProtoJsonRpcResponse(response_type).from_json: an error field is raised,
\* a result is returned.
from_json(m) == IF m.error THEN "RpcError" ELSE "ok"

\* A decoding that takes no notice of the error field.
deserialize_lenient(m) == "ok"

\* _deserialize_result: `if rpc_response.error is None: return ...` else raise.
deserialize_result(m) == IF m.error THEN "RpcError" ELSE "ok"

(***************************************************************************)
(* WsProvider._unary_unary: the response                                   *)
(***************************************************************************)
\* A receive that looks the response up by the identifier of the request.
receive_matching(q, i) ==
  IF \E k \in 1..Len(q) : q[k].id = i
    THEN CHOOSE k \in 1..Len(q) : q[k].id = i /\ \A j \in 1..(k - 1) : q[j].id # i
    ELSE 1

\* The message `await ws.receive_json()` returns, as its position among the
\* buffered ones: the next inbound message of the connection, whatever its
\* identifier.
receive_json(q, i) == 1

\* A receive that leaves the message it returned in the buffer.
buffered_peek(q, k) == q

\* What stays buffered once receive_json has returned message k: the
\* message read is taken off the connection.
buffered_after(q, k) == SubSeq(q, 1, k - 1) \o SubSeq(q, k + 1, Len(q))

\* `raw_result = await ws.receive_json()` and the return of its decoding.
\* With nothing buffered the call waits while the connection is open and
\* raises once it is not.
Recv(t) ==
  /\ pc[t] = "recv"
  /\ LET c == lws[t]
         q == inbox[c]
     IN IF q # <<>>
          THEN LET k == receive_json(q, rid[t])
                   m == q[k]
               IN /\ inbox' = [inbox EXCEPT ![c] = buffered_after(q, k)]
                  /\ got' = [got EXCEPT ![t] =
                               IF from_json(m) = "ok" THEN <<m>> ELSE <<>>]
                  /\ Finish(t, from_json(m))
          ELSE /\ c \notin open
               /\ Finish(t, "TransportError")
               /\ UNCHANGED <<inbox, got>>
  /\ UNCHANGED <<provVars, open, sent, answered, npush, httpreq, histVars,
                 op, lws, previous, rid, ctx, nops>>
  /\ UNCHANGED <<subVars, signVars>>

(***************************************************************************)
(* WsProvider._unary_stream: the iteration                                 *)
(***************************************************************************)
\* An iteration that is over whenever no message is at hand.
ws_closed_always(c) == TRUE

\* `async for msg in ws` is over when the connection is closed: until then
\* it waits for the next message.
ws_closed(c) == c \notin open

\* A loop that passes on the updates of its own request only.
yields_own(m, i) == m.id = i

\* The body of the loop has no test on the identifier of the message (the
\* comment of line 116: "it'll intercept all kinds of message").
yields(m, i) == TRUE

\* One round of `async for msg in ws:`: the next inbound message is decoded
\* and yielded, or its error raised; the loop ends, and the generator with
\* it, when the connection is closed.
Iter(t) ==
  /\ pc[t] = "iter"
  /\ LET c == lws[t]
         q == inbox[c]
     IN IF q # <<>>
          THEN /\ inbox' = [inbox EXCEPT ![c] = Tail(q)]
               /\ IF ~yields(Head(q), rid[t])
                    THEN UNCHANGED <<got, pc, outcome>>
                    ELSE IF deserialize_result(Head(q)) = "ok"
                      THEN /\ got' = [got EXCEPT ![t] = Append(@, Head(q))]
                           /\ UNCHANGED <<pc, outcome>>
                      ELSE /\ Finish(t, deserialize_result(Head(q)))
                           /\ UNCHANGED got
          ELSE /\ ws_closed(c)
               /\ Finish(t, "EndOfStream")
               /\ UNCHANGED <<inbox, got>>
  /\ UNCHANGED <<provVars, open, sent, answered, npush, httpreq, histVars,
                 op, lws, previous, rid, ctx, nops>>
  /\ UNCHANGED <<subVars, signVars>>

(***************************************************************************)
(* HttpProvider                                                            *)
(***************************************************************************)
\* A call_single of HttpProvider: `async with self._session.post(...)`, one
\* exchange on the session, refused by a closed session.
Http_request(t) ==
  /\ pc[t] = "call_single"
  /\ kind = "http"
  /\ IF session_closed
       THEN /\ Finish(t, "TransportError")
            /\ UNCHANGED <<httpreq, ctx>>
       ELSE /\ httpreq' = httpreq + 1
            /\ ctx' = [ctx EXCEPT ![t].wrote = TRUE]
            /\ pc' = [pc EXCEPT ![t] = "http_response"]
            /\ UNCHANGED outcome
  /\ UNCHANGED <<provVars, open, inbox, sent, answered, npush, histVars, op,
                 lws, previous, rid, got, nops>>
  /\ UNCHANGED <<subVars, signVars>>

\* `return await map_response(res, ...)`: the decoded body, or the error
\* the status code maps to.
Http_response(t) ==
  /\ pc[t] = "http_response"
  /\ \E e \in BOOLEAN :
        /\ got' = [got EXCEPT ![t] = IF e THEN <<>> ELSE <<Msg(None, FALSE)>>]
        /\ Finish(t, IF e THEN "RpcError" ELSE "ok")
  /\ UNCHANGED <<provVars, netVars, histVars, op, lws, previous, rid, ctx,
                 nops>>
  /\ UNCHANGED <<subVars, signVars>>

\* What HttpProvider._unary_stream hands to its consumer before it raises:
\* `yield NotImplementedError(...)` delivers the exception object as an item.
NotImplementedItem == [id |-> None, error |-> TRUE]
http_stream_items == <<NotImplementedItem>>

\* First resumption of the generator: runs to the `yield`.
Http_stream_yield(t) ==
  /\ pc[t] = "call_stream"
  /\ kind = "http"
  /\ got' = [got EXCEPT ![t] = @ \o http_stream_items]
  /\ pc' = [pc EXCEPT ![t] = "http_stream_raise"]
  /\ UNCHANGED <<provVars, netVars, histVars, op, lws, previous, rid,
                 outcome, ctx, nops>>
  /\ UNCHANGED <<subVars, signVars>>

\* Second resumption: `raise NotImplementedError(...)`.
Http_stream_raise(t) ==
  /\ pc[t] = "http_stream_raise"
  /\ Finish(t, "NotImplemented")
  /\ UNCHANGED <<provVars, netVars, histVars, op, lws, previous, rid, got,
                 ctx, nops>>
  /\ UNCHANGED <<subVars, signVars>>

(***************************************************************************)
(* The peer                                                                *)
(***************************************************************************)
\* The server sends a message for a request it has received: the one
\* response of a call_single, in any order, or one more update of a stream.
Server(c) ==
  /\ c \in open
  /\ npush < MaxPush
  /\ \E f \in sent, e \in BOOLEAN :
        /\ f.conn = c
        /\ f.op = "call_single" => f.id \notin answered
        /\ answered' = IF f.op = "call_single"
                         THEN answered \cup {f.id} ELSE answered
        /\ inbox' = [inbox EXCEPT ![c] = Append(@, Msg(f.id, e))]
  /\ npush' = npush + 1
  /\ UNCHANGED <<provVars, open, sent, httpreq, taskVars, histVars, nops>>
  /\ UNCHANGED <<subVars, signVars>>

\* The connection is lost. The calls in flight on it are the call_single
\* waiting for a response and the call_stream being consumed.
Drop(c) ==
  /\ c \in open
  /\ open' = open \ {c}
  /\ dropped' = dropped \cup {c}
  /\ ctx' = [t \in Tasks |->
               IF /\ lws[t] = c
                  /\ \/ pc[t] = "recv" /\ inbox[c] = <<>>
                     \/ pc[t] = "iter"
                 THEN [ctx[t] EXCEPT !.at_drop = TRUE] ELSE ctx[t]]
  /\ UNCHANGED <<provVars, inbox, sent, answered, npush, httpreq, pc, op,
                 lws, previous, rid, got, outcome, issued, close_done,
                 connect_done, nops>>
  /\ UNCHANGED <<subVars, signVars>>

Next ==
  \/ \E t \in Tasks, o \in OpKinds : Start(t, o)
  \/ \E t \in Tasks : Connect(t)
  \/ \E t \in Tasks : Ws_connect(t)
  \/ \E t \in Tasks : Http_connect(t)
  \/ \E t \in Tasks : Close_ws(t)
  \/ \E t \in Tasks : Close_session(t)
  \/ \E t \in Tasks : Call_test(t)
  \/ \E t \in Tasks : Lock_acquire(t)
  \/ \E t \in Tasks : Lock_read(t)
  \/ \E t \in Tasks : Lock_incr(t)
  \/ \E t \in Tasks : Send(t)
  \/ \E t \in Tasks : Recv(t)
  \/ \E t \in Tasks : Iter(t)
  \/ \E t \in Tasks : Http_request(t)
  \/ \E t \in Tasks : Http_response(t)
  \/ \E t \in Tasks : Http_stream_yield(t)
  \/ \E t \in Tasks : Http_stream_raise(t)
  \/ \E c \in Conns : Server(c)
  \/ \E c \in Conns : Drop(c)

Spec == Init /\ [][Next]_vars

TypeOK ==
  /\ kind \in Kinds
  /\ ws \in {None} \cup Conns
  /\ request_lock \in {None} \cup Tasks
  /\ nconn \in 0..MaxTasks
  /\ open \subseteq Conns
  /\ \A t \in Tasks : outcome[t] \in Outcomes

(***************************************************************************)
(* transaction/signing.py                                                  *)
(*                                                                         *)
(* A transaction in memory is [signatures, required, message]: the slots   *)
(* (None for the zero signature), num_required_signatures of the header    *)
(* and the message.  On the wire it is the flat sequence                   *)
(* <<n, slot_1, ..., slot_n, required, message>>.                          *)
(***************************************************************************)
Other == 1           \* a signature another party has put in a slot
Messages == 1..MaxMsg

\* keypair.sign(message_content).signature
Signature(key, message) == 10 * (key + 1) + message

\* tx.serialize(): the wire form of a transaction.
serialize(tx) ==
  <<Len(tx.signatures)>> \o tx.signatures \o <<tx.required, tx.message>>

\* base64.decodebytes / Transaction.deserialize accept the wire form only
\* when the slot count it announces fits its length.
decodable(w) == Len(w) >= 1 /\ Len(w) = w[1] + 3

\* Transaction.deserialize on a decodable wire form.
deserialize(w) ==
  [signatures |-> SubSeq(w, 2, w[1] + 1),
   required |-> w[w[1] + 2],
   message |-> w[w[1] + 3]]

Raise(e) == [err |-> e, tx |-> <<>>]
Return(w) == [err |-> "none", tx |-> w]

\* _replace_zero_signature: the result is the transaction with the one
\* zero slot replaced, or the exception raised.
replace_zero_signature(tx, key) ==
  LET zeros == {i \in 1..Len(tx.signatures) : tx.signatures[i] = None}
  IN IF tx.signatures = <<>>
       THEN [err |-> "NoSignatures", tx |-> tx]
     ELSE IF Cardinality(zeros) > 1
       THEN [err |-> "MoreThanOneZero", tx |-> tx]
     ELSE IF zeros = {}
       THEN [err |-> "NoZero", tx |-> tx]
     ELSE LET zero_sig_index == CHOOSE i \in zeros : TRUE
          IN [err |-> "none",
              tx |-> [tx EXCEPT !.signatures[zero_sig_index] =
                                   Signature(key, tx.message)]]

\* _sign_tx: the count of slots is compared with the header first.
sign_tx(tx, key) ==
  IF Len(tx.signatures) # tx.required
    THEN [err |-> "Malformed", tx |-> tx]
    ELSE replace_zero_signature(tx, key)

\* sign_tx_with_private_key: decode, sign, encode.
sign_tx_with_private_key(w, key) ==
  IF ~decodable(w)
    THEN Raise("DecodeError")
    ELSE LET r == sign_tx(deserialize(w), key)
         IN IF r.err # "none" THEN Raise(r.err) ELSE Return(serialize(r.tx))

SignErrors == {"DecodeError", "Malformed", "NoSignatures", "MoreThanOneZero",
               "NoZero"}

(***************************************************************************)
(* transaction/signing.py, statement by statement: one call of             *)
(* sign_tx_with_private_key on the wire form and the key pair drawn at     *)
(* the start.  the_tx is the Transaction object the call works on; only    *)
(* the assignment of line 80 writes to it.  compile_message,               *)
(* serialize_message and serialize are taken not to change the object,     *)
(* and serialize to encode whatever the slots hold.                        *)
(***************************************************************************)
\* The sequences of at most n elements of S.
RECURSIVE SeqsUpTo(_, _)
SeqsUpTo(S, n) ==
  IF n = 0 THEN {<<>>}
  ELSE LET shorter == SeqsUpTo(S, n - 1)
       IN shorter \cup {Append(q, x) : q \in shorter, x \in S}

Keypairs == 1..MaxKeys
SlotValues == {None, Other}

\* The transactions a caller can hand to the signer, whatever their state.
Transactions ==
  [signatures : SeqsUpTo(SlotValues, MaxSigs), required : 0..MaxSigs,
   message : Messages]

\* Input that is not the encoding of a transaction.
Garbled == {<<>>, <<2, None, 1, 1>>}

WireForms == {serialize(x) : x \in Transactions} \cup Garbled

restVars == <<provVars, netVars, histVars, taskVars, nops, subVars>>

\* The call ends.
Sign_done(r) ==
  /\ sign_result' = r
  /\ sign_pc' = "done"

\* `tx = Transaction.deserialize(base64.decodebytes(...))`
Sign_decode ==
  /\ sign_pc = "decode"
  /\ IF ~decodable(unsigned_tx_base64)
       THEN /\ Sign_done(Raise("DecodeError"))
            /\ UNCHANGED the_tx
       ELSE /\ the_tx' = deserialize(unsigned_tx_base64)
            /\ sign_pc' = "sign_tx"
            /\ UNCHANGED sign_result
  /\ UNCHANGED <<unsigned_tx_base64, keypair, new_signature, zero_index,
                 index, restVars>>

\* A comparison that accepts any number of slots.
count_mismatch_never(present, required) == FALSE

\* `if signatures_present != signatures_required`
count_mismatch(present, required) == present # required

\* _sign_tx up to the call of _replace_zero_signature.
Sign_check ==
  /\ sign_pc = "sign_tx"
  /\ IF count_mismatch(Len(the_tx.signatures), the_tx.required)
       THEN Sign_done(Raise("Malformed"))
       ELSE /\ sign_pc' = "sign_message"
            /\ UNCHANGED sign_result
  /\ UNCHANGED <<unsigned_tx_base64, keypair, the_tx, new_signature,
                 zero_index, index, restVars>>

\* `new_signature = keypair.sign(tx.serialize_message()).signature`
Sign_message ==
  /\ sign_pc = "sign_message"
  /\ new_signature' = Signature(keypair, the_tx.message)
  /\ sign_pc' = "has_signatures"
  /\ UNCHANGED <<unsigned_tx_base64, keypair, the_tx, zero_index, index,
                 sign_result, restVars>>

\* `if not tx.signatures: raise`, then `zero_sig_index = -1` and the loop
\* is entered.
Sign_has_signatures ==
  /\ sign_pc = "has_signatures"
  /\ IF the_tx.signatures = <<>>
       THEN /\ Sign_done(Raise("NoSignatures"))
            /\ UNCHANGED <<zero_index, index>>
       ELSE /\ zero_index' = -1
            /\ index' = 0
            /\ sign_pc' = "scan"
            /\ UNCHANGED sign_result
  /\ UNCHANGED <<unsigned_tx_base64, keypair, the_tx, new_signature, restVars>>

\* A scan that takes every zero signature for the first.
second_zero_never(z) == FALSE

\* `if zero_sig_index != -1` at a zero signature: one was seen before.
second_zero(z) == z # -1

\* One turn of `for index, pub_keypair in enumerate(tx.signatures)`.
Sign_scan ==
  /\ sign_pc = "scan"
  /\ index < Len(the_tx.signatures)
  /\ IF the_tx.signatures[index + 1] = None /\ second_zero(zero_index)
       THEN /\ Sign_done(Raise("MoreThanOneZero"))
            /\ UNCHANGED <<zero_index, index>>
       ELSE /\ zero_index' = (IF the_tx.signatures[index + 1] = None
                                    THEN index ELSE zero_index)
            /\ index' = index + 1
            /\ UNCHANGED <<sign_pc, sign_result>>
  /\ UNCHANGED <<unsigned_tx_base64, keypair, the_tx, new_signature, restVars>>

\* A test that finds a zero signature in every transaction.
no_zero_never(z) == FALSE

\* `if zero_sig_index == -1`
no_zero(z) == z = -1

\* An assignment that writes the signature to every slot.
assign_all(sigs, i, sig) == [k \in 1..Len(sigs) |-> sig]

\* `tx.signatures[zero_sig_index].signature = new_signature`
assign(sigs, i, sig) == [sigs EXCEPT ![i + 1] = sig]

\* The loop is over: lines 78-80.
Sign_replace ==
  /\ sign_pc = "scan"
  /\ index = Len(the_tx.signatures)
  /\ IF no_zero(zero_index)
       THEN /\ Sign_done(Raise("NoZero"))
            /\ UNCHANGED the_tx
       ELSE /\ the_tx' = [the_tx EXCEPT !.signatures =
                                  assign(@, zero_index, new_signature)]
            /\ sign_pc' = "encode"
            /\ UNCHANGED sign_result
  /\ UNCHANGED <<unsigned_tx_base64, keypair, new_signature, zero_index,
                 index, restVars>>

\* `return base64.b64encode(tx.serialize()).decode("utf-8")`
Sign_encode ==
  /\ sign_pc = "encode"
  /\ Sign_done(Return(serialize(the_tx)))
  /\ UNCHANGED <<unsigned_tx_base64, keypair, the_tx, new_signature,
                 zero_index, index, restVars>>

NextSign ==
  \/ Sign_decode
  \/ Sign_check
  \/ Sign_message
  \/ Sign_has_signatures
  \/ Sign_scan
  \/ Sign_replace
  \/ Sign_encode

\* sign_tx_with_private_key has just been called with some wire form and
\* some key pair.
InitSign ==
  /\ kind = "http"
  /\ ws = None
  /\ session_closed = FALSE
  /\ request_id = 1
  /\ request_lock = None
  /\ nconn = 0
  /\ open = {}
  /\ inbox = [c \in Conns |-> <<>>]
  /\ sent = {}
  /\ answered = {}
  /\ npush = 0
  /\ pc = [t \in Tasks |-> "idle"]
  /\ op = [t \in Tasks |-> "none"]
  /\ lws = [t \in Tasks |-> None]
  /\ previous = [t \in Tasks |-> None]
  /\ rid = [t \in Tasks |-> None]
  /\ got = [t \in Tasks |-> <<>>]
  /\ outcome = [t \in Tasks |-> "none"]
  /\ ctx = [t \in Tasks |-> NoCtx]
  /\ issued = <<>>
  /\ nops = 0
  /\ close_done = FALSE
  /\ connect_done = FALSE
  /\ dropped = {}
  /\ httpreq = 0
  /\ private_key = None
  /\ arg = [t \in Tasks |-> "default"]
  /\ log = [t \in Tasks |-> <<>>]
  /\ resp = [t \in Tasks |-> <<>>]
  /\ idx = [t \in Tasks |-> 0]
  /\ signed_tx = [t \in Tasks |-> <<>>]
  /\ signatures = [t \in Tasks |-> <<>>]
  /\ unsigned_tx_base64 \in WireForms
  /\ keypair \in Keypairs
  /\ the_tx = NoTx
  /\ new_signature = None
  /\ zero_index = -1
  /\ index = 0
  /\ sign_pc = "decode"
  /\ sign_result = NoResult

SpecSign == InitSign /\ [][NextSign]_vars

(***************************************************************************)
(* provider/base.py: the submit operations                                 *)
(***************************************************************************)
SingleOps == {"submit_order", "submit_cancel_order",
              "submit_cancel_by_client_order_i_d", "submit_settle",
              "submit_replace_by_client_order_i_d", "submit_replace_order"}
SubmitOps == SingleOps \cup {"submit_cancel_all"}

\* The stub method each operation calls to have its transaction built.
BuildRoute(o) ==
  CASE o = "submit_order" -> "post_order"
    [] o = "submit_cancel_order" -> "post_cancel_order"
    [] o = "submit_cancel_by_client_order_i_d" ->
         "post_cancel_by_client_order_i_d"
    [] o = "submit_cancel_all" -> "post_cancel_all"
    [] o = "submit_settle" -> "post_settle"
    [] o = "submit_replace_by_client_order_i_d" ->
         "post_replace_by_client_order_i_d"
    [] o = "submit_replace_order" -> "post_replace_order"

\* One default, False, for every operation.
DefaultSkip_never(o) == FALSE

\* The default of the parameter skip_pre_flight of each operation.
DefaultSkip(o) ==
  o \in {"submit_cancel_order", "submit_cancel_by_client_order_i_d",
         "submit_cancel_all"}

SkipArgs == {"default", "True", "False"}
skip_pre_flight(o, a) == IF a = "default" THEN DefaultSkip(o) ELSE a = "True"

\* The unsigned transactions the service answers a build request with: one
\* empty slot to sign, or (message 1) a slot that is signed already.
BuildTxs ==
  {serialize([signatures |-> <<None>>, required |-> 1, message |-> m]) :
     m \in Messages}
  \cup {serialize([signatures |-> <<Other>>, required |-> 1, message |-> 1])}

\* `order.transaction` / `response.transactions` of a build response.
BuildResponses(o) ==
  IF o = "submit_cancel_all"
    THEN SeqsUpTo(BuildTxs, MaxTxs)
    ELSE {<<w>> : w \in BuildTxs}

ConfSignatures == 1..MaxConf
CallErrors == {"RpcError", "TransportError"}

\* The caller starts submit operation o, passing skip_pre_flight or not.
\* One task issues the submit operations, one after another: what other
\* callers do on the transport shows in the responses only.
Submit_start(t, o, a) ==
  /\ pc[t] = "idle"
  /\ \A u \in Tasks \ {t} : op[u] = "none"
  /\ op' = [op EXCEPT ![t] = o]
  /\ arg' = [arg EXCEPT ![t] = a]
  /\ pc' = [pc EXCEPT ![t] = "require"]
  /\ outcome' = [outcome EXCEPT ![t] = "none"]
  /\ log' = [log EXCEPT ![t] = <<>>]
  /\ resp' = [resp EXCEPT ![t] = <<>>]
  /\ idx' = [idx EXCEPT ![t] = 0]
  /\ signed_tx' = [signed_tx EXCEPT ![t] = <<>>]
  /\ signatures' = [signatures EXCEPT ![t] = <<>>]
  /\ UNCHANGED <<signVars, provVars, netVars, histVars, lws, previous, rid, got, ctx,
                 nops, private_key>>

\* A test that takes any value, None included, for a key pair.
no_private_key_never(kp) == FALSE

\* require_private_key raises when private_key() is None.
no_private_key(kp) == kp = None

\* `pk = self.require_private_key()`
Require(t) ==
  /\ pc[t] = "require"
  /\ IF no_private_key(private_key)
       THEN Finish(t, "MissingPrivateKey")
       ELSE /\ pc' = [pc EXCEPT ![t] = "build"]
            /\ UNCHANGED outcome
  /\ UNCHANGED <<signVars, provVars, netVars, histVars, op, lws, previous, rid, got,
                 ctx, nops, subVars>>

\* How a call through the transport fails before anything is sent:
\* HttpProvider.post_replace_order has no parameter order_i_d, which
\* submit_replace_order passes; WsProvider needs its connection.
call_refused(route) ==
  IF kind = "http" /\ route = "post_replace_order" THEN "TypeError"
  ELSE IF kind = "ws" /\ not_connected(ws) THEN "NotConnected"
  ELSE "none"

\* A call of a stub method, with the transaction and the flag it carries;
\* `result` is the confirmation signature the call returned, once it did.
Call(route, w, skip) ==
  [route |-> route, tx |-> w, skip |-> skip, result |-> None]

\* An exception handled inside the operation: what was obtained so far is
\* returned.
Raises_swallowed(t, e) == Finish(t, "ok")

\* No operation has a try/except: an exception raised by the signer or by
\* post_submit leaves the operation, whose local variables are lost.
Raises(t, e) == Finish(t, e)

\* `for tx in response.transactions`: there is a transaction after the i-th.
more_txs(i, r) == i < Len(r)

\* A list that takes the new signature at its front.
prepend_signature(sigs, c) == <<c>> \o sigs

\* `signatures.append(result.signature)`
append_signature(sigs, c) == Append(sigs, c)

\* `await self.post_...(...)`: the call is made and runs up to the request
\* being sent.
Build_call(t) ==
  /\ pc[t] = "build"
  /\ LET route == BuildRoute(op[t])
     IN /\ log' = [log EXCEPT ![t] = Append(@, Call(route, <<>>, FALSE))]
        /\ IF call_refused(route) # "none"
             THEN Finish(t, call_refused(route))
             ELSE /\ pc' = [pc EXCEPT ![t] = "build_wait"]
                  /\ UNCHANGED outcome
  /\ UNCHANGED <<signVars, provVars, netVars, histVars, op, lws, previous, rid, got,
                 ctx, nops, private_key, arg, resp, idx, signed_tx,
                 signatures>>

\* The build call returns the response of the service or raises.  With no
\* transaction in a cancel-all response the loop is not entered.
Build_return(t) ==
  /\ pc[t] = "build_wait"
  /\ \/ \E e \in CallErrors :
          /\ Finish(t, e)
          /\ UNCHANGED <<resp, idx>>
     \/ \E r \in BuildResponses(op[t]) :
          /\ resp' = [resp EXCEPT ![t] = r]
          /\ IF r = <<>>
               THEN /\ Finish(t, "ok")
                    /\ UNCHANGED idx
               ELSE /\ idx' = [idx EXCEPT ![t] = 1]
                    /\ pc' = [pc EXCEPT ![t] = "sign"]
                    /\ UNCHANGED outcome
  /\ UNCHANGED <<signVars, provVars, netVars, histVars, op, lws, previous, rid, got,
                 ctx, nops, private_key, arg, log, signed_tx, signatures>>

\* A signing that lets every exception through.
raised_never(r) == FALSE

\* sign_tx_with_private_key raised: the exception leaves the operation.
raised(r) == r.err # "none"

\* `signed_tx = transaction.sign_tx_with_private_key(tx, pk)`
Sign(t) ==
  /\ pc[t] = "sign"
  /\ LET r == sign_tx_with_private_key(resp[t][idx[t]], private_key)
     IN IF raised(r)
          THEN /\ Raises(t, r.err)
               /\ UNCHANGED signed_tx
          ELSE /\ signed_tx' = [signed_tx EXCEPT ![t] = r.tx]
               /\ pc' = [pc EXCEPT ![t] = "submit"]
               /\ UNCHANGED outcome
  /\ UNCHANGED <<signVars, provVars, netVars, histVars, op, lws, previous, rid, got,
                 ctx, nops, private_key, arg, log, resp, idx, signatures>>

\* `await self.post_submit(transaction=signed_tx, skip_pre_flight=...)` up
\* to the request being sent.
Submit_call(t) ==
  /\ pc[t] = "submit"
  /\ log' = [log EXCEPT ![t] =
               Append(@, Call("post_submit", signed_tx[t],
                              skip_pre_flight(op[t], arg[t])))]
  /\ IF call_refused("post_submit") # "none"
       THEN Finish(t, call_refused("post_submit"))
       ELSE /\ pc' = [pc EXCEPT ![t] = "submit_wait"]
            /\ UNCHANGED outcome
  /\ UNCHANGED <<signVars, provVars, netVars, histVars, op, lws, previous, rid, got,
                 ctx, nops, private_key, arg, resp, idx, signed_tx,
                 signatures>>

\* post_submit returns: `result.signature` is kept, and the operation
\* returns or, in submit_cancel_all, goes on with the next transaction.
Submit_return(t) ==
  /\ pc[t] = "submit_wait"
  /\ \/ \E e \in CallErrors :
          /\ Raises(t, e)
          /\ UNCHANGED <<signatures, idx, log>>
     \/ \E c \in ConfSignatures :
          /\ log' = [log EXCEPT ![t][Len(log[t])].result = c]
          /\ signatures' = [signatures EXCEPT ![t] = append_signature(@, c)]
          /\ IF more_txs(idx[t], resp[t])
               THEN /\ idx' = [idx EXCEPT ![t] = @ + 1]
                    /\ pc' = [pc EXCEPT ![t] = "sign"]
                    /\ UNCHANGED outcome
               ELSE /\ Finish(t, "ok")
                    /\ UNCHANGED idx
  /\ UNCHANGED <<signVars, provVars, netVars, histVars, op, lws, previous, rid, got,
                 ctx, nops, private_key, arg, resp, signed_tx>>

NextSubmit ==
  \/ \E t \in Tasks, o \in SubmitOps, a \in SkipArgs : Submit_start(t, o, a)
  \/ \E t \in Tasks : Require(t)
  \/ \E t \in Tasks : Build_call(t)
  \/ \E t \in Tasks : Build_return(t)
  \/ \E t \in Tasks : Sign(t)
  \/ \E t \in Tasks : Submit_call(t)
  \/ \E t \in Tasks : Submit_return(t)

\* The provider as constructed, or a WsProvider after one connect().
InitSubmit ==
  /\ kind \in Kinds
  /\ ws \in (IF kind = "ws" THEN {None, 1} ELSE {None})
  /\ session_closed = FALSE
  /\ request_id = 1
  /\ request_lock = None
  /\ nconn = (IF ws = None THEN 0 ELSE 1)
  /\ open = (IF ws = None THEN {} ELSE {ws})
  /\ inbox = [c \in Conns |-> <<>>]
  /\ sent = {}
  /\ answered = {}
  /\ npush = 0
  /\ pc = [t \in Tasks |-> "idle"]
  /\ op = [t \in Tasks |-> "none"]
  /\ lws = [t \in Tasks |-> None]
  /\ previous = [t \in Tasks |-> None]
  /\ rid = [t \in Tasks |-> None]
  /\ got = [t \in Tasks |-> <<>>]
  /\ outcome = [t \in Tasks |-> "none"]
  /\ ctx = [t \in Tasks |-> NoCtx]
  /\ issued = <<>>
  /\ nops = 0
  /\ close_done = FALSE
  /\ connect_done = (ws # None)
  /\ dropped = {}
  /\ httpreq = 0
  /\ private_key \in {None, Keypair}
  /\ arg = [t \in Tasks |-> "default"]
  /\ log = [t \in Tasks |-> <<>>]
  /\ resp = [t \in Tasks |-> <<>>]
  /\ idx = [t \in Tasks |-> 0]
  /\ signed_tx = [t \in Tasks |-> <<>>]
  /\ signatures = [t \in Tasks |-> <<>>]
  /\ NotSigning

SpecSubmit == InitSubmit /\ [][NextSubmit]_vars

(***************************************************************************)
(* Properties of the transports (specification Spec)                       *)
(***************************************************************************)
WsCall(t) == kind = "ws" /\ IsCall(op[t])
Ended(t) == pc[t] = "idle" /\ outcome[t] # "none"

\* C1: the identifiers issued by _next_request_id on one WsProvider are
\* pairwise distinct and strictly increasing in the order of allocation,
\* and the first one issued is 1, however the calls interleave.
C1_IdsUniqueIncreasing ==
  /\ Len(issued) >= 1 => issued[1] = 1
  /\ \A i, j \in 1..Len(issued) : i < j => issued[i] < issued[j]

\* Two calls that went through the allocation while both were in flight.
C1_Witness ==
  /\ Len(issued) >= 2
  /\ \E t, u \in Tasks : t # u /\ pc[t] = "send" /\ pc[u] = "send"

\* C2: call_single returns the next inbound message of the shared
\* connection without comparing identifiers, so with several calls in
\* flight a caller can be handed the response to another caller's request.
C2_ReturnsNextInbound ==
  [][\A t \in Tasks :
       (pc[t] = "recv" /\ pc'[t] = "idle" /\ outcome'[t] = "ok")
         => got'[t] = <<Head(inbox[lws[t]])>>]_vars

\* A call_single that returned the response to the request of another call.
C2_Witness ==
  \E t \in Tasks :
    /\ WsCall(t) /\ op[t] = "call_single" /\ Ended(t) /\ outcome[t] = "ok"
    /\ got[t][1].id # rid[t]
    /\ \E f \in sent : f.id = got[t][1].id /\ f.op = "call_single"

\* C4: after close() has completed, every later call_single / call_stream
\* on the WsProvider fails with NotConnected and writes nothing.
C4_AfterCloseNotConnected ==
  \A t \in Tasks :
    (WsCall(t) /\ ctx[t].after_close)
      => /\ ~ctx[t].wrote
         /\ Ended(t) => outcome[t] = "NotConnected"

\* C5: however connect() calls interleave, the connection of one WsProvider
\* is established exactly once.
C5_ConnectedOnce == nconn <= 1

\* C6: while no connect() has completed on a WsProvider, every call_single
\* and call_stream fails with NotConnected (none gets past the test, none
\* writes).
C6_NeverConnected ==
  (kind = "ws" /\ ~connect_done) =>
    \A t \in Tasks :
      IsCall(op[t]) =>
        /\ pc[t] \in {"idle", "call_single", "call_stream"}
        /\ ~ctx[t].wrote
        /\ rid[t] = None
        /\ Ended(t) => outcome[t] = "NotConnected"

C6_Witness ==
  /\ kind = "ws" /\ ~connect_done
  /\ \E t \in Tasks : op[t] = "call_single" /\ outcome[t] = "NotConnected"
  /\ \E t \in Tasks : op[t] = "call_stream" /\ outcome[t] = "NotConnected"

\* C7: when the connection is dropped, every call in flight on it and every
\* call issued afterwards ends in a NotConnected / connection error.
C7_DropFailsCalls ==
  \A t \in Tasks :
    (WsCall(t) /\ Ended(t) /\ (ctx[t].at_drop \/ ctx[t].after_drop))
      => outcome[t] \in {"NotConnected", "TransportError"}

\* C8: call_stream on HttpProvider fails with the streaming-unsupported
\* error, performs no network operation and delivers nothing before that.
C8_HttpStreamFailsEmpty ==
  \A t \in Tasks :
    (kind = "http" /\ op[t] = "call_stream")
      => /\ got[t] = <<>>
         /\ ~ctx[t].wrote
         /\ Ended(t) => outcome[t] = "NotImplemented"

\* A WsProvider after connect(), on which calls are made and which is
\* closed at some time; the peer answers or drops the connection.
InitStream ==
  /\ kind = "ws"
  /\ ws = 1
  /\ session_closed = FALSE
  /\ request_id = 1
  /\ request_lock = None
  /\ nconn = 1
  /\ open = {1}
  /\ inbox = [c \in Conns |-> <<>>]
  /\ sent = {}
  /\ answered = {}
  /\ npush = 0
  /\ pc = [t \in Tasks |-> "idle"]
  /\ op = [t \in Tasks |-> "none"]
  /\ lws = [t \in Tasks |-> None]
  /\ previous = [t \in Tasks |-> None]
  /\ rid = [t \in Tasks |-> None]
  /\ got = [t \in Tasks |-> <<>>]
  /\ outcome = [t \in Tasks |-> "none"]
  /\ ctx = [t \in Tasks |-> NoCtx]
  /\ issued = <<>>
  /\ nops = 0
  /\ close_done = FALSE
  /\ connect_done = TRUE
  /\ dropped = {}
  /\ httpreq = 0
  /\ private_key = None
  /\ arg = [t \in Tasks |-> "default"]
  /\ log = [t \in Tasks |-> <<>>]
  /\ resp = [t \in Tasks |-> <<>>]
  /\ idx = [t \in Tasks |-> 0]
  /\ signed_tx = [t \in Tasks |-> <<>>]
  /\ signatures = [t \in Tasks |-> <<>>]
  /\ NotSigning

StreamOps == {"call_stream", "close"}

\* One operation of a kind at a time.
Stream_start(t, o) ==
  /\ \A u \in Tasks \ {t} : pc[u] = "idle"  \/ op[u] # o
  /\ Start(t, o)

NextStream ==
  \/ \E t \in Tasks, o \in StreamOps : Stream_start(t, o)
  \/ \E t \in Tasks : Close_ws(t)
  \/ \E t \in Tasks : Close_session(t)
  \/ \E t \in Tasks : Call_test(t)
  \/ \E t \in Tasks : Lock_acquire(t)
  \/ \E t \in Tasks : Lock_read(t)
  \/ \E t \in Tasks : Lock_incr(t)
  \/ \E t \in Tasks : Send(t)
  \/ \E t \in Tasks : Iter(t)
  \/ \E c \in Conns : Server(c)
  \/ \E c \in Conns : Drop(c)

\* Calls of both kinds on the one connection of a connected WsProvider
\* while the connection lasts: a call_single and a call_stream at a time.
CallOps == {"call_single", "call_stream"}

NextShared ==
  \/ \E t \in Tasks, o \in CallOps : Stream_start(t, o)
  \/ \E t \in Tasks : Call_test(t)
  \/ \E t \in Tasks : Lock_acquire(t)
  \/ \E t \in Tasks : Lock_read(t)
  \/ \E t \in Tasks : Lock_incr(t)
  \/ \E t \in Tasks : Send(t)
  \/ \E t \in Tasks : Recv(t)
  \/ \E t \in Tasks : Iter(t)
  \/ \E c \in Conns : Server(c)

SpecShared == InitStream /\ [][NextShared]_vars

\* The consumer of a stream keeps asking for the next item, and the event
\* loop runs a coroutine that can go on.
SpecStream ==
  InitStream /\ [][NextStream]_vars /\ \A t \in Tasks : WF_vars(Iter(t))

\* The stream of task t is being consumed on a WsProvider.
Streaming(t) == kind = "ws" /\ op[t] = "call_stream" /\ pc[t] = "iter"

\* C18: a call_stream on a connected WsProvider yields the messages it
\* reads in the order of their arrival; it ends only when an error message
\* has arrived or when the connection is closed and nothing is left to
\* read, and once the connection is closed it does end.
C18_StreamLifetime ==
  /\ [][\A t \in Tasks :
          Streaming(t) =>
            /\ got'[t] # got[t] =>
                 /\ inbox[lws[t]] # <<>>
                 /\ got'[t] = Append(got[t], Head(inbox[lws[t]]))
                 /\ inbox'[lws[t]] = Tail(inbox[lws[t]])
                 /\ Streaming(t)'
            /\ ~Streaming(t)' =>
                 \/ /\ inbox[lws[t]] # <<>>
                    /\ Head(inbox[lws[t]]).error
                    /\ outcome'[t] = "RpcError"
                 \/ /\ inbox[lws[t]] = <<>>
                    /\ lws[t] \notin open
                    /\ outcome'[t] = "EndOfStream"]_vars
  /\ \A t \in Tasks :
       (Streaming(t) /\ lws[t] \notin open) ~> ~Streaming(t)

\* A stream that delivered two messages and ended when the connection did.
C18_Witness ==
  \E t \in Tasks :
    /\ kind = "ws" /\ op[t] = "call_stream" /\ Ended(t)
    /\ outcome[t] = "EndOfStream"
    /\ Len(got[t]) = 2

\* Some call takes the head of the inbox of connection c.
Taken(c) == inbox[c] # <<>> /\ inbox'[c] = Tail(inbox[c])

\* C19: when the message a call of a WsProvider reads carries an error
\* field, the call that read it ends with the error raised to its caller;
\* a message with an error field is never among the messages delivered and
\* none is taken from the connection without a call ending on it.
C19_ErrorFieldRaised ==
  /\ [](kind = "ws" =>
          \A t \in Tasks : \A i \in 1..Len(got[t]) : ~got[t][i].error)
  /\ [][\A c \in Conns :
          (Taken(c) /\ Head(inbox[c]).error)
            => \E t \in Tasks :
                 /\ lws[t] = c /\ pc[t] \in {"recv", "iter"}
                 /\ pc'[t] = "idle" /\ outcome'[t] = "RpcError"
                 /\ got'[t] \in {<<>>, got[t]}
                 /\ \A u \in Tasks \ {t} :
                      pc'[u] = pc[u] /\ got'[u] = got[u]]_vars

\* A stream that had delivered a message ended on a message with an error.
C19_Witness ==
  \E t \in Tasks :
    /\ kind = "ws" /\ op[t] = "call_stream" /\ Ended(t)
    /\ outcome[t] = "RpcError"
    /\ Len(got[t]) >= 1

\* C20: a call_stream that is being consumed yields every message it reads
\* from the shared connection (and that has no error field) whatever the
\* identifier of the message: a message that leaves the connection other
\* than through a call_single is appended to the items of a stream.  So the
\* response to the request of a call_single in flight can end up among the
\* items of the stream.
C20_StreamYieldsAnyId ==
  [][\A c \in Conns :
       (Taken(c) /\ ~Head(inbox[c]).error
          /\ \A u \in Tasks : pc[u] = "recv" => pc'[u] = "recv")
         => \E t \in Tasks :
              /\ Streaming(t) /\ lws[t] = c
              /\ got'[t] = Append(got[t], Head(inbox[c]))
              /\ Streaming(t)']_vars

\* The stream has yielded the response a call_single is still waiting for.
C20_Witness ==
  \E t, u \in Tasks :
    /\ Streaming(t)
    /\ op[u] = "call_single" /\ pc[u] = "recv" /\ lws[u] = lws[t]
    /\ rid[u] # rid[t]
    /\ \E i \in 1..Len(got[t]) : got[t][i].id = rid[u]
    /\ inbox[lws[u]] = <<>>

\* Calls of call_single made one after another on a connected WsProvider:
\* the caller starts one only when the one before has ended.  No stream is
\* opened; the provider may be closed and the connection may be lost at any
\* time.  The peer sends one response for each request it has received.
SequentialOps == {"call_single", "close"}

NextSequential ==
  \/ \E t \in Tasks, o \in SequentialOps : Stream_start(t, o)
  \/ \E t \in Tasks : Close_ws(t)
  \/ \E t \in Tasks : Close_session(t)
  \/ \E t \in Tasks : Call_test(t)
  \/ \E t \in Tasks : Lock_acquire(t)
  \/ \E t \in Tasks : Lock_read(t)
  \/ \E t \in Tasks : Lock_incr(t)
  \/ \E t \in Tasks : Send(t)
  \/ \E t \in Tasks : Recv(t)
  \/ \E c \in Conns : Server(c)
  \/ \E c \in Conns : Drop(c)

SpecSequential == InitStream /\ [][NextSequential]_vars

\* The call_single of task t is waiting for its response.
Receiving(t) == kind = "ws" /\ op[t] = "call_single" /\ pc[t] = "recv"

\* C21: when the call_single invocations on a connected WsProvider are made
\* strictly one after another, no stream is active and the server sends one
\* response per request in the order of the requests, every call_single
\* that returns returns the response carrying the identifier of its own
\* request; and a message waiting on the connection is always the response
\* to the one call that is waiting, so a call that raises the error of a
\* response has raised the error of its own.
C21_SequentialOwnResponse ==
  /\ \A t \in Tasks :
       (kind = "ws" /\ op[t] = "call_single" /\ Ended(t) /\ outcome[t] = "ok")
         => got[t] = <<Msg(rid[t], FALSE)>>
  /\ \A c \in Conns :
       inbox[c] # <<>> =>
         /\ Len(inbox[c]) = 1
         /\ \E t \in Tasks :
              Receiving(t) /\ lws[t] = c /\ inbox[c][1].id = rid[t]

\* Two calls made one after the other have both returned, the second with
\* the response to the second request.
C21_Witness ==
  \E t, u \in Tasks :
    /\ t # u
    /\ kind = "ws" /\ op[t] = "call_single" /\ op[u] = "call_single"
    /\ Ended(t) /\ outcome[t] = "ok" /\ rid[t] = 1
    /\ Ended(u) /\ outcome[u] = "ok" /\ rid[u] = 2
    /\ got[u] = <<Msg(2, FALSE)>>

\* A WsProvider from its construction on: connect() and calls of both
\* kinds, some of them made before the connection is there.
InitWs == Init /\ kind = "ws"

ConnectOps == {"connect", "call_single", "call_stream"}

NextConnect ==
  \/ \E t \in Tasks, o \in ConnectOps : Start(t, o)
  \/ \E t \in Tasks : Connect(t)
  \/ \E t \in Tasks : Ws_connect(t)
  \/ \E t \in Tasks : Call_test(t)
  \/ \E t \in Tasks : Lock_acquire(t)
  \/ \E t \in Tasks : Lock_read(t)
  \/ \E t \in Tasks : Lock_incr(t)
  \/ \E t \in Tasks : Send(t)
  \/ \E t \in Tasks : Recv(t)
  \/ \E t \in Tasks : Iter(t)
  \/ \E c \in Conns : Server(c)

SpecConnect == InitWs /\ [][NextConnect]_vars

\* The call of task t ends with NotConnected in this step.
FailsNotConnected(t) ==
  /\ kind = "ws" /\ IsCall(pc[t])
  /\ pc'[t] = "idle" /\ outcome'[t] = "NotConnected"

\* C22: a call_single or call_stream of a WsProvider that fails with
\* NotConnected has allocated no request identifier and leaves the counter
\* of request identifiers as it was (and the lock, and the frames written);
\* so the identifiers handed out are 1, 2, ... in the order of allocation
\* and the counter is one more than their number, however many calls have
\* failed before: the next successful call is issued the identifier it
\* would have been issued without the failed ones.
C22_NotConnectedAllocatesNothing ==
  /\ [][\A t \in Tasks :
          FailsNotConnected(t) =>
            /\ request_id' = request_id
            /\ issued' = issued
            /\ request_lock' = request_lock
            /\ sent' = sent
            /\ rid'[t] = None /\ previous'[t] = None]_vars
  /\ [](kind = "ws" =>
          /\ request_id = Len(issued) + 1
          /\ \A i \in 1..Len(issued) : issued[i] = i)

\* A call failed with NotConnected; after connect() the first call that
\* went through was issued the identifier 1.
C22_Witness ==
  \E t, u \in Tasks :
    /\ kind = "ws" /\ connect_done
    /\ IsCall(op[t]) /\ Ended(t) /\ outcome[t] = "NotConnected"
    /\ op[u] = "call_single" /\ Ended(u) /\ outcome[u] = "ok"
    /\ rid[u] = 1 /\ issued = <<1>>

(***************************************************************************)
(* Properties of the submit operations (specification SpecSubmit)          *)
(***************************************************************************)
SubmitCalls(t) == SelectSeq(log[t], LAMBDA c : c.route = "post_submit")

\* C3: when signing one of the transactions of a submit_cancel_all fails,
\* the operation fails and no signed transaction of that operation has
\* been submitted.
C3_NoSubmitBeforeAllSigned ==
  \A t \in Tasks :
    (op[t] = "submit_cancel_all" /\ Ended(t) /\ outcome[t] \in SignErrors)
      => SubmitCalls(t) = <<>>

\* C9: on a provider without a key pair every submit operation fails with
\* the missing-private-key error before any transport call: neither a
\* build request nor a submit request is issued.
C9_MissingKeyNoCall ==
  private_key = None =>
    \A t \in Tasks :
      op[t] \in SubmitOps =>
        /\ log[t] = <<>>
        /\ pc[t] \in {"idle", "require"}
        /\ Ended(t) => outcome[t] = "MissingPrivateKey"

C9_Witness ==
  /\ private_key = None
  /\ \E t \in Tasks : op[t] \in SubmitOps /\ outcome[t] = "MissingPrivateKey"

\* C10: a single-transaction submit operation issues one build call, signs
\* the transaction that call returned and issues one submit call carrying
\* the signed transaction; the submit call comes after the build response,
\* a failure at build or sign issues no submit call, nothing is retried.
C10_BuildSignSubmit ==
  \A t \in Tasks :
    op[t] \in SingleOps =>
      /\ Len(log[t]) <= 2
      /\ Len(log[t]) >= 1 => log[t][1].route = BuildRoute(op[t])
      /\ Len(log[t]) = 2 =>
           /\ log[t][2].route = "post_submit"
           /\ Len(resp[t]) = 1
           /\ sign_tx_with_private_key(resp[t][1], private_key).err = "none"
           /\ log[t][2].tx =
                sign_tx_with_private_key(resp[t][1], private_key).tx
      /\ (Ended(t) /\ outcome[t] = "ok") => Len(log[t]) = 2
      /\ (Ended(t) /\ outcome[t] # "MissingPrivateKey") => Len(log[t]) >= 1
      /\ (Ended(t) /\ outcome[t] \in SignErrors) => Len(log[t]) = 1
      /\ (Ended(t) /\ resp[t] = <<>>) => Len(log[t]) <= 1

C10_Witness ==
  \E t \in Tasks :
    /\ op[t] \in SingleOps /\ Ended(t) /\ outcome[t] = "ok"
    /\ Len(log[t]) = 2
    /\ signatures[t] # <<>>

\* The signed form of the i-th transaction of the build response.
SignedForm(t, i) == sign_tx_with_private_key(resp[t][i], private_key)

\* C11: a submit_cancel_all that succeeds on a build response of n unsigned
\* transactions returns exactly n confirmation signatures; the i-th is the
\* result of the i-th submit call, which carried the signed form of the
\* i-th unsigned transaction, so the submissions go out in the order of the
\* build response.
C11_CancelAllInOrder ==
  \A t \in Tasks :
    (op[t] = "submit_cancel_all" /\ Ended(t) /\ outcome[t] = "ok")
      => /\ Len(signatures[t]) = Len(resp[t])
         /\ Len(SubmitCalls(t)) = Len(resp[t])
         /\ Len(log[t]) = Len(resp[t]) + 1
         /\ \A i \in 1..Len(resp[t]) :
              /\ SignedForm(t, i).err = "none"
              /\ SubmitCalls(t)[i].tx = SignedForm(t, i).tx
              /\ signatures[t][i] = SubmitCalls(t)[i].result

\* Three different confirmations for three transactions, two of which differ.
C11_Witness ==
  \E t \in Tasks :
    /\ op[t] = "submit_cancel_all" /\ Ended(t) /\ outcome[t] = "ok"
    /\ Len(resp[t]) = MaxTxs
    /\ resp[t][1] # resp[t][2]
    /\ signatures[t][1] # signatures[t][2]

\* C12: when signing or submitting one transaction of a submit_cancel_all
\* fails, the operation fails: the failing transaction is the last one that
\* was signed or submitted, and an operation that got fewer signatures than
\* it had transactions never returns (a list of) them.
C12_FailureAborts ==
  \A t \in Tasks :
    (op[t] = "submit_cancel_all" /\ Ended(t)
       /\ Len(signatures[t]) < Len(resp[t]))
      => /\ outcome[t] \in SignErrors \cup CallErrors
         /\ idx[t] = Len(signatures[t]) + 1
         /\ outcome[t] \in SignErrors =>
              /\ SignedForm(t, idx[t]).err = outcome[t]
              /\ Len(SubmitCalls(t)) = idx[t] - 1
         /\ outcome[t] \in CallErrors =>
              /\ Len(SubmitCalls(t)) = idx[t]
              /\ SubmitCalls(t)[idx[t]].result = None
              /\ SubmitCalls(t)[idx[t]].tx = SignedForm(t, idx[t]).tx
         /\ \A i \in 1..Len(SubmitCalls(t)) : i < idx[t] =>
              SubmitCalls(t)[i].result = signatures[t][i]

\* The second submission failed with a third transaction still to come.
C12_Witness ==
  \E t \in Tasks :
    /\ op[t] = "submit_cancel_all" /\ Ended(t)
    /\ outcome[t] \in CallErrors
    /\ Len(resp[t]) = MaxTxs /\ Len(signatures[t]) = 1
    /\ Len(SubmitCalls(t)) = 2

\* C17: the skip_pre_flight flag of every submit call is the value the
\* caller passed; when the caller passed none it is false for submit_order,
\* submit_settle, submit_replace_order and
\* submit_replace_by_client_order_i_d and true for submit_cancel_order,
\* submit_cancel_by_client_order_i_d and submit_cancel_all.
C17_SkipPreFlightForwarded ==
  \A t \in Tasks :
    \A i \in 1..Len(log[t]) :
      log[t][i].route = "post_submit" =>
        /\ arg[t] = "True" => log[t][i].skip = TRUE
        /\ arg[t] = "False" => log[t][i].skip = FALSE
        /\ (arg[t] = "default"
              /\ op[t] \in {"submit_order", "submit_settle",
                            "submit_replace_order",
                            "submit_replace_by_client_order_i_d"})
             => log[t][i].skip = FALSE
        /\ (arg[t] = "default"
              /\ op[t] \in {"submit_cancel_order",
                            "submit_cancel_by_client_order_i_d",
                            "submit_cancel_all"})
             => log[t][i].skip = TRUE

\* A cancellation submitted with the default, which skips the preflight.
C17_Witness ==
  \E t \in Tasks :
    /\ op[t] = "submit_cancel_order" /\ arg[t] = "default"
    /\ SubmitCalls(t) # <<>> /\ SubmitCalls(t)[1].skip = TRUE

(***************************************************************************)
(* Properties of the signer (specification SpecSign)                       *)
(***************************************************************************)
\* The transaction the signer was called with, and its empty slots.
Unsigned == deserialize(unsigned_tx_base64)
EmptySlots(x) == {i \in 1..Len(x.signatures) : x.signatures[i] = None}
CountsMatch(x) == Len(x.signatures) = x.required

\* The call is over / returned a transaction / raised error e.
SignEnded == sign_pc = "done"
SignReturned == SignEnded /\ sign_result.err = "none"
SignRaised(e) == SignEnded /\ sign_result.err = e

\* The Transaction object is as it was decoded (or not decoded yet).
Untouched == the_tx \in {NoTx, Unsigned}

\* VerifyKey(key).verify(message, sig): sig is the signature of key over
\* message.
Verifies(sig, key, message) == sig \div 10 = key + 1 /\ sig % 10 = message

\* The statements of the signer compute what its definition as a function
\* does.
SignAgrees ==
  SignEnded =>
    sign_result = sign_tx_with_private_key(unsigned_tx_base64, keypair)

\* C13: for a transaction whose number of signature slots differs from the
\* required signature count of its header, signing fails with the
\* malformed-transaction error ("transaction requires .. signatures and has
\* .. signatures") and no slot of the transaction is modified.
C13_MismatchMalformed ==
  (decodable(unsigned_tx_base64) /\ ~CountsMatch(Unsigned))
    => /\ Untouched
       /\ sign_pc \in {"decode", "sign_tx", "done"}
       /\ SignEnded => SignRaised("Malformed")

\* Refused although one slot is empty and could have been signed.
C13_Witness ==
  /\ decodable(unsigned_tx_base64) /\ ~CountsMatch(Unsigned)
  /\ Cardinality(EmptySlots(Unsigned)) = 1
  /\ SignRaised("Malformed") /\ the_tx = Unsigned

\* C14 as stated: for a transaction whose slot count matches its header,
\* with no empty slot signing fails with the no-signature-slot error ("no
\* zero signatures to replace"), with two or more with the
\* ambiguous-signature-slot error ("more than one zero signature"), and no
\* slot is modified.
C14_EmptySlotErrors ==
  (decodable(unsigned_tx_base64) /\ CountsMatch(Unsigned)
     /\ Cardinality(EmptySlots(Unsigned)) # 1)
    => /\ Untouched
       /\ (SignEnded /\ EmptySlots(Unsigned) = {}) => SignRaised("NoZero")
       /\ (SignEnded /\ Cardinality(EmptySlots(Unsigned)) >= 2)
            => SignRaised("MoreThanOneZero")

\* C14, amended: the same for a transaction that has at least one slot; a
\* transaction with no slot at all (and a header that requires none) fails
\* with the error "transaction does not have any signatures".
C14_EmptySlotErrorsWithSlots ==
  (decodable(unsigned_tx_base64) /\ CountsMatch(Unsigned)
     /\ Cardinality(EmptySlots(Unsigned)) # 1)
    => /\ Untouched
       /\ (SignEnded /\ Unsigned.signatures = <<>>)
            => SignRaised("NoSignatures")
       /\ (SignEnded /\ Unsigned.signatures # <<>>
             /\ EmptySlots(Unsigned) = {}) => SignRaised("NoZero")
       /\ (SignEnded /\ Cardinality(EmptySlots(Unsigned)) >= 2)
            => SignRaised("MoreThanOneZero")

\* A transaction signed by everybody already.
C14_Witness ==
  /\ decodable(unsigned_tx_base64) /\ CountsMatch(Unsigned)
  /\ Len(Unsigned.signatures) >= 2 /\ EmptySlots(Unsigned) = {}
  /\ SignRaised("NoZero") /\ the_tx = Unsigned

\* C15: for a transaction with matching header and slot counts and exactly
\* one empty slot, signing succeeds; in the transaction it returns that
\* slot holds the signature of the given key over the message, every other
\* slot is the input's slot at the same position, and the header and the
\* message are the input's.
C15_SignsTheEmptySlot ==
  (decodable(unsigned_tx_base64) /\ CountsMatch(Unsigned)
     /\ Cardinality(EmptySlots(Unsigned)) = 1 /\ SignEnded)
    => /\ SignReturned
       /\ decodable(sign_result.tx)
       /\ LET signed == deserialize(sign_result.tx)
          IN /\ Len(signed.signatures) = Len(Unsigned.signatures)
             /\ \A i \in 1..Len(Unsigned.signatures) :
                  IF i \in EmptySlots(Unsigned)
                    THEN Verifies(signed.signatures[i], keypair,
                                  Unsigned.message)
                    ELSE signed.signatures[i] = Unsigned.signatures[i]
             /\ signed.required = Unsigned.required
             /\ signed.message = Unsigned.message

\* The empty slot stood between two signatures of other parties.
C15_Witness ==
  /\ SignReturned
  /\ Len(Unsigned.signatures) = 3 /\ EmptySlots(Unsigned) = {2}
  /\ deserialize(sign_result.tx).signatures[1] = Other
  /\ deserialize(sign_result.tx).signatures[2] # None

\* C16: a transaction returned by a successful signing has no empty slot,
\* and the number of its non-empty slots is the required signature count of
\* its header.
C16_SignedComplete ==
  SignReturned =>
    /\ decodable(sign_result.tx)
    /\ LET signed == deserialize(sign_result.tx)
           filled == {i \in 1..Len(signed.signatures) :
                        signed.signatures[i] # None}
       IN /\ EmptySlots(signed) = {}
          /\ Cardinality(filled) = signed.required

\* A signing that returned a transaction of several slots.
C16_Witness ==
  /\ SignReturned
  /\ Len(deserialize(sign_result.tx).signatures) >= 2
  /\ deserialize(sign_result.tx).required >= 2

=============================================================================
